---- MODULE Spec2Model ----
(***************************************************************************)
(* BoneMarrowTransplantApp.c: createDatabase (a k-way merge of donor files *)
(* with duplicate-id elimination) and getPotentialDonors (a threshold scan *)
(* of a donor database).                                                   *)
(*                                                                         *)
(* A C string is the sequence of the character codes before its NUL, a     *)
(* FILE* is the text of the file with a read position, and a C array is a  *)
(* function on 0..n-1.                                                     *)
(***************************************************************************)
EXTENDS Integers, Sequences, FiniteSets, TLC

\* ------------------------------------------------------------------------
\* Sizes of the program
\* ------------------------------------------------------------------------

\* #define MAX_PERSONS 1000: the records malloc'ed for the donors array
MAX_PERSONS == 1000

\* #define MAX_UNITS 100: the rows of processedIDs
MAX_UNITS == 100

\* ------------------------------------------------------------------------
\* Bounds of the inputs explored
\* ------------------------------------------------------------------------

\* the most collection-unit files given to createDatabase
MaxUnits == 2

\* the most records in one collection-unit file
MaxRecs == 2

\* ------------------------------------------------------------------------
\* <ctype.h> and <string.h>
\* ------------------------------------------------------------------------

isdigit(c) == c \in 48..57

isspace(c) == c \in 9..13 \/ c = 32

RECURSIVE strcmp(_, _)
strcmp(a, b) ==
    IF a = <<>> /\ b = <<>> THEN 0
    ELSE IF a = <<>> THEN -1
    ELSE IF b = <<>> THEN 1
    ELSE IF Head(a) < Head(b) THEN -1
    ELSE IF Head(a) > Head(b) THEN 1
    ELSE strcmp(Tail(a), Tail(b))

\* ------------------------------------------------------------------------
\* The helper functions
\* ------------------------------------------------------------------------

comparePersons(a, b) == strcmp(a.name, b.name)

RECURSIVE countGeneMatchesFrom(_, _, _, _)
countGeneMatchesFrom(donor, patient, k, matchCount) ==
    IF k > 5 THEN matchCount
    ELSE countGeneMatchesFrom(donor, patient, k + 1,
            IF strcmp(donor.genes[k], patient.genes[k]) = 0
            THEN matchCount + 1 ELSE matchCount)

countGeneMatches(donor, patient) == countGeneMatchesFrom(donor, patient, 1, 0)

\* the index at which cleanName's loop stops: the first digit, or the NUL
RECURSIVE cleanNameStop(_, _)
cleanNameStop(name, k) ==
    IF k > Len(name) \/ isdigit(name[k]) THEN k ELSE cleanNameStop(name, k + 1)

cleanName(name) ==
    LET stop == cleanNameStop(name, 1)
        nonSpace == {k \in 1..(stop - 1) : ~isspace(name[k])}
        lastChar == IF nonSpace = {} THEN 0
                    ELSE CHOOSE k \in nonSpace : \A j \in nonSpace : j <= k
    IN SubSeq(name, 1, lastChar)

isDuplicate(id, ids, n) == \E k \in 1..n : strcmp(id, ids[k]) = 0

\* ------------------------------------------------------------------------
\* fscanf with "%30[^0-9] %9s %21s %21s %21s %21s %21s"
\* ------------------------------------------------------------------------

\* %30[^0-9]: how many characters from p on are not digits, at most w
RECURSIVE NonDigitRun(_, _, _)
NonDigitRun(text, p, w) ==
    IF w = 0 \/ p > Len(text) \/ isdigit(text[p]) THEN 0
    ELSE 1 + NonDigitRun(text, p + 1, w - 1)

\* the white space a %s (or a blank of the format) skips
RECURSIVE SkipSpace(_, _)
SkipSpace(text, p) ==
    IF p > Len(text) \/ ~isspace(text[p]) THEN p ELSE SkipSpace(text, p + 1)

\* %ws: how many characters from p on are not white space, at most w
RECURSIVE NonSpaceRun(_, _, _)
NonSpaceRun(text, p, w) ==
    IF w = 0 \/ p > Len(text) \/ isspace(text[p]) THEN 0
    ELSE 1 + NonSpaceRun(text, p + 1, w - 1)

\* the %s conversions in turn, until one finds the end of the file
RECURSIVE ScanStrings(_, _, _, _)
ScanStrings(text, p, widths, acc) ==
    IF widths = <<>> THEN [strs |-> acc, pos |-> p]
    ELSE LET q == SkipSpace(text, p)
             n == NonSpaceRun(text, q, Head(widths))
         IN IF n = 0 THEN [strs |-> acc, pos |-> q]
            ELSE ScanStrings(text, q + n, Tail(widths),
                             Append(acc, SubSeq(text, q, q + n - 1)))

\* count is fscanf's return value (-1 is EOF), name and strs the conversions
\* it assigned, pos the read position it leaves
fscanf(text, p) ==
    LET n == NonDigitRun(text, p, 30)
        rest == ScanStrings(text, p + n, <<9, 21, 21, 21, 21, 21>>, <<>>)
    IN IF n = 0
       THEN [count |-> IF p > Len(text) THEN -1 ELSE 0,
             name |-> <<>>, strs |-> <<>>, pos |-> p]
       ELSE [count |-> 1 + Len(rest.strs), name |-> SubSeq(text, p, p + n - 1),
             strs |-> rest.strs, pos |-> rest.pos]

\* the person a slot holds after fscanf stored its conversions into it: a
\* field whose conversion did not happen keeps what the slot held
Stored(old, r) ==
    [name |-> IF r.count >= 1 THEN r.name ELSE old.name,
     id |-> IF r.count >= 2 THEN r.strs[1] ELSE old.id,
     genes |-> [k \in 1..5 |-> IF r.count >= k + 2 THEN r.strs[k + 1]
                               ELSE old.genes[k]]]

\* memset(&p, 0, sizeof(person))
ZeroPerson == [name |-> <<>>, id |-> <<>>, genes |-> [k \in 1..5 |-> <<>>]]

\* ------------------------------------------------------------------------
\* The files explored
\* ------------------------------------------------------------------------

GenesX == [k \in 1..5 |-> <<88>>]

GenesY == [k \in 1..5 |-> IF k = 5 THEN <<89>> ELSE <<88>>]

\* one line of a collection-unit file: "<name><id> <g1> <g2> <g3> <g4> <g5>\n"
Line(name, id, genes) ==
    name \o id \o <<32>> \o genes[1] \o <<32>> \o genes[2] \o <<32>>
         \o genes[3] \o <<32>> \o genes[4] \o <<32>> \o genes[5] \o <<10>>

\* the lines a file is made of, in name order: " 3", "A 1", "B 1", "B 2", "B 2"
Master ==
    << Line(<<32>>, <<51>>, GenesX),
       Line(<<65, 32>>, <<49>>, GenesX),
       Line(<<66, 32>>, <<49>>, GenesY),
       Line(<<66, 32>>, <<50>>, GenesX),
       Line(<<66, 32>>, <<50>>, GenesY) >>

RECURSIVE Concat(_, _)
Concat(lines, picked) ==
    IF picked = {} THEN <<>>
    ELSE LET k == CHOOSE x \in picked : \A y \in picked : x <= y
         IN lines[k] \o Concat(lines, picked \ {k})

\* the files whose every line is a record, sorted by name
SortedFiles ==
    {Concat(Master, S) : S \in {T \in SUBSET (1..Len(Master)) : Cardinality(T) <= MaxRecs}}

\* an empty file, a file that ends after a name, a file that starts with a digit
BrokenFiles == {<<>>, <<65, 32, 10>>, <<49, 32, 88, 10>>}

Files == SortedFiles \cup BrokenFiles

\* what an uninitialised slot of currentPersons may hold
Indeterminate ==
    {[name |-> n, id |-> <<63>>, genes |-> [k \in 1..5 |-> <<>>]] : n \in {<<>>, <<1>>}}

\* the three decimal digits of k
Digits3(k) ==
    <<48 + ((k \div 100) % 10), 48 + ((k \div 10) % 10), 48 + (k % 10)>>

\* a file of n records named "A"; record k has id min(k, distinct)
LongFile(n, distinct) ==
    <<>> \o
    [j \in 1..(16 * n) |->
        LET k == ((j - 1) \div 16) + 1
        IN Line(<<65, 32>>, Digits3(IF k <= distinct THEN k ELSE distinct),
                GenesX)[((j - 1) % 16) + 1]]

\* ------------------------------------------------------------------------
\* The state
\* ------------------------------------------------------------------------

VARIABLES
    choice,          \* main's menu selection: 1 createDatabase, 2 getPotentialDonors
    pc,              \* where the running function is
    units,           \* createDatabase: the text of each input file
    numberOfUnits,
    filePos,         \* the read position of each input file
    i,               \* the index of the priming loop
    currentPersons,
    activeFiles,
    processedIDs,    \* row k of the array is processedIDs[k + 1]; rows from
                     \* MAX_UNITS on lie outside the array
    numProcessed,
    lastFileIndex,
    outFile,         \* the fprintf calls made on the output file, in order
    slot,            \* history: what the last fscanf into each slot did
    recNo,           \* history: how many records each file has yielded
    fscanfCalls,     \* history: how many times each file was read
    dbFile,          \* getPotentialDonors: the text of the database
    dbPos,
    patient,
    min_match,
    donors,          \* the malloc'ed array: donors[k + 1] is element k
    donorCount,
    size,            \* *size
    scanned          \* history: the records fscanf returned from dbFile

vars == <<choice, pc, units, numberOfUnits, filePos, i, currentPersons,
          activeFiles, processedIDs, numProcessed, lastFileIndex, outFile,
          slot, recNo, fscanfCalls, dbFile, dbPos, patient, min_match,
          donors, donorCount, size, scanned>>

mergeVars == <<units, numberOfUnits, filePos, i, currentPersons, activeFiles,
               processedIDs, numProcessed, lastFileIndex, outFile, slot,
               recNo, fscanfCalls>>

filterVars == <<dbFile, dbPos, patient, min_match, donors, donorCount, size,
                scanned>>

\* ------------------------------------------------------------------------
\* Initial states
\* ------------------------------------------------------------------------

\* createDatabase entered with the files fs: lines 277-288 and 309
EnterCreateDatabase(fs) ==
    /\ choice = 1
    /\ pc = "prime"
    /\ units = fs
    /\ numberOfUnits = Len(fs)
    /\ filePos = [u \in 0..(Len(fs) - 1) |-> 1]
    /\ i = 0
    /\ currentPersons = [u \in 0..(Len(fs) - 1) |-> ZeroPerson]
    /\ activeFiles = 0
    /\ processedIDs = <<>>
    /\ numProcessed = 0
    /\ lastFileIndex = -1
    /\ outFile = <<>>
    /\ slot = [u \in 0..(Len(fs) - 1) |-> "unread"]
    /\ recNo = [u \in 0..(Len(fs) - 1) |-> 0]
    /\ fscanfCalls = [u \in 0..(Len(fs) - 1) |-> 0]
    /\ dbFile = <<>>
    /\ dbPos = 1
    /\ patient = ZeroPerson
    /\ min_match = 0
    /\ donors = <<>>
    /\ donorCount = 0
    /\ size = 0
    /\ scanned = <<>>

\* getPotentialDonors entered: lines 416-426
EnterGetPotentialDonors(db, genes, m) ==
    /\ choice = 2
    /\ pc = "scan"
    /\ units = <<>>
    /\ numberOfUnits = 0
    /\ filePos = <<>>
    /\ i = 0
    /\ currentPersons = <<>>
    /\ activeFiles = 0
    /\ processedIDs = <<>>
    /\ numProcessed = 0
    /\ lastFileIndex = -1
    /\ outFile = <<>>
    /\ slot = <<>>
    /\ recNo = <<>>
    /\ fscanfCalls = <<>>
    /\ dbFile = db
    /\ dbPos = 1
    /\ patient = [name |-> <<>>, id |-> <<>>, genes |-> genes]
    /\ min_match = m
    /\ donors = <<>>
    /\ donorCount = 0
    /\ size = 0
    /\ scanned = <<>>

UnitLists == UNION {[1..n -> Files] : n \in 1..MaxUnits}

Init ==
    \/ \E fs \in UnitLists : EnterCreateDatabase(fs)
    \/ \E db \in SortedFiles, g \in {GenesX, GenesY}, m \in {0, 4, 5, 6} :
          EnterGetPotentialDonors(db, g, m)

\* one file with more distinct ids than processedIDs has rows, then one of
\* them again; a database with more matching donors than donors has elements
InitLong ==
    \/ \E rest \in {<<>>, <<Master[2]>>} :
          EnterCreateDatabase(<<LongFile(MAX_UNITS + 2, MAX_UNITS + 1)>> \o rest)
    \/ EnterGetPotentialDonors(LongFile(MAX_PERSONS + 1, MAX_PERSONS + 1), GenesX, 5)

\* ------------------------------------------------------------------------
\* createDatabase
\* ------------------------------------------------------------------------

\* lines 291-304: one pass of the priming loop.  currentPersons is an
\* uninitialised array, so a field fscanf does not store is indeterminate.
Prime ==
    /\ pc = "prime"
    /\ i < numberOfUnits
    /\ LET r == fscanf(units[i + 1], filePos[i]) IN
       \E before \in (IF r.count = 7 THEN {ZeroPerson} ELSE Indeterminate) :
          LET got == Stored(before, r) IN
          /\ currentPersons' = [currentPersons EXCEPT ![i] =
                IF r.count = 7 THEN [got EXCEPT !.name = cleanName(got.name)] ELSE got]
          /\ activeFiles' = IF r.count = 7 THEN activeFiles + 1 ELSE activeFiles
          /\ filePos' = [filePos EXCEPT ![i] = r.pos]
          /\ slot' = [slot EXCEPT ![i] = IF r.count = 7 THEN "record" ELSE "failed"]
          /\ recNo' = [recNo EXCEPT ![i] = IF r.count = 7 THEN 1 ELSE 0]
          /\ fscanfCalls' = [fscanfCalls EXCEPT ![i] = 1]
    /\ i' = i + 1
    /\ pc' = IF i + 1 = numberOfUnits THEN "loop" ELSE "prime"
    /\ UNCHANGED <<choice, units, numberOfUnits, processedIDs, numProcessed,
                   lastFileIndex, outFile>>
    /\ UNCHANGED filterVars

PrecedesOrTies(a, b) == comparePersons(a, b) <= 0

\* line 317: whether a displaces the smallest record found so far
Precedes(a, b) == comparePersons(a, b) < 0

\* lines 315-320: the scan for the smallest current record
RECURSIVE ScanSmallest(_, _)
ScanSmallest(k, smallestIndex) ==
    IF k >= numberOfUnits THEN smallestIndex
    ELSE ScanSmallest(k + 1,
            IF /\ currentPersons[k].name # <<>>
               /\ (smallestIndex = -1
                   \/ Precedes(currentPersons[k], currentPersons[smallestIndex]))
            THEN k ELSE smallestIndex)

\* what isDuplicate reads of processedIDs: a row outside the array holds the
\* id stored there only if nothing else has used that memory since
Rows(intact) ==
    [k \in 1..numProcessed |->
        IF k <= MAX_UNITS \/ intact THEN processedIDs[k] ELSE <<1>>]

NewLine == [t |-> "newline", sep |-> FALSE, p |-> ZeroPerson, src |-> -1, no |-> 0]

\* the fprintf of a record: sep tells the "%-30s %-9s" format of line 352
\* from the "%-30s%-9s" format of line 342
Record(p, sep, src, no) == [t |-> "record", sep |-> sep, p |-> p, src |-> src, no |-> no]

\* lines 311-382: one pass of the merge loop
MergeIteration ==
    /\ pc = "loop"
    /\ activeFiles > 0
    /\ LET smallestIndex == ScanSmallest(0, -1) IN
       IF smallestIndex = -1
       THEN /\ pc' = "break"
            /\ UNCHANGED <<currentPersons, activeFiles, filePos, processedIDs,
                           numProcessed, lastFileIndex, outFile, slot, recNo,
                           fscanfCalls>>
       ELSE \E intact \in (IF numProcessed > MAX_UNITS THEN BOOLEAN ELSE {TRUE}) :
            LET cur == currentPersons[smallestIndex]
                dup == isDuplicate(cur.id, Rows(intact), numProcessed)
                newLine == smallestIndex # lastFileIndex /\ lastFileIndex # -1
                written == (IF newLine /\ ~dup THEN <<NewLine>> ELSE <<>>)
                           \o (IF dup THEN <<>>
                               ELSE <<Record(cur, ~newLine, smallestIndex,
                                             recNo[smallestIndex])>>)
                r == fscanf(units[smallestIndex + 1], filePos[smallestIndex])
            IN \E stopped \in (IF ~dup /\ numProcessed >= MAX_UNITS
                               THEN BOOLEAN ELSE {FALSE}) :
               /\ outFile' = outFile \o written
               /\ lastFileIndex' = smallestIndex
               /\ IF stopped
                  THEN \* the strcpy outside processedIDs ended the process
                       /\ pc' = "crashed"
                       /\ UNCHANGED <<currentPersons, activeFiles, filePos,
                                      processedIDs, numProcessed, slot, recNo,
                                      fscanfCalls>>
                  ELSE /\ pc' = "loop"
                       /\ processedIDs' = IF dup THEN processedIDs
                                          ELSE Append(processedIDs, cur.id)
                       /\ numProcessed' = IF dup THEN numProcessed
                                          ELSE numProcessed + 1
                       /\ filePos' = [filePos EXCEPT ![smallestIndex] = r.pos]
                       /\ fscanfCalls' = [fscanfCalls EXCEPT ![smallestIndex] = @ + 1]
                       /\ currentPersons' = [currentPersons EXCEPT ![smallestIndex] =
                             IF r.count # 7 THEN ZeroPerson ELSE Stored(cur, r)]
                       /\ activeFiles' = IF r.count # 7 THEN activeFiles - 1
                                         ELSE activeFiles
                       /\ slot' = [slot EXCEPT ![smallestIndex] =
                             IF r.count # 7 THEN "cleared" ELSE "record"]
                       /\ recNo' = [recNo EXCEPT ![smallestIndex] =
                             IF r.count # 7 THEN @ ELSE @ + 1]
    /\ UNCHANGED <<choice, units, numberOfUnits, i>>
    /\ UNCHANGED filterVars

\* lines 311, 322 and 386: the loop ends and the output file is closed
CloseDatabase ==
    /\ (pc = "loop" /\ activeFiles <= 0) \/ pc = "break"
    /\ pc' = "closed"
    /\ UNCHANGED <<choice>>
    /\ UNCHANGED mergeVars
    /\ UNCHANGED filterVars

\* ------------------------------------------------------------------------
\* getPotentialDonors
\* ------------------------------------------------------------------------

\* the locals of getPotentialDonors before the loop: lines 416-426
EnterLoop ==
    [at |-> "scan", pos |-> 1, donors |-> <<>>, donorCount |-> 0, scanned |-> <<>>]

\* lines 429-442: one pass of the loop, from the locals st.  donors has
\* MAX_PERSONS elements: a store past them is outside the allocation, and
\* either ends the process or leaves the array as it is.
ReadDonor(st, onOverflow) ==
    LET r == fscanf(dbFile, st.pos)
        current == Stored(ZeroPerson, r)
        matches == countGeneMatches(current, patient)
        read == [st EXCEPT !.pos = r.pos, !.scanned = Append(@, current)]
    IN IF st.at # "scan" THEN st
       ELSE IF r.count # 7 THEN [st EXCEPT !.at = "returned", !.pos = r.pos]
       ELSE IF ~(matches >= min_match) THEN read
       ELSE IF st.donorCount < MAX_PERSONS
       THEN [read EXCEPT !.donors = Append(@, current), !.donorCount = @ + 1]
       ELSE IF onOverflow = "crash" THEN [read EXCEPT !.at = "crashed"]
       ELSE [read EXCEPT !.donorCount = @ + 1]

\* n passes of the loop, or fewer if it ends before
RECURSIVE ReadDonors(_, _, _)
ReadDonors(st, n, onOverflow) ==
    IF n <= 0 THEN st
    ELSE IF n = 1 THEN ReadDonor(st, onOverflow)
    ELSE LET half == ReadDonors(st, n \div 2, onOverflow)
         IN IF half.at # "scan" THEN half
            ELSE ReadDonors(half, n - (n \div 2), onOverflow)

\* lines 415-447: the call, to its return.  Every pass but the last reads
\* at least one character, so the loop makes at most Len(dbFile) + 1 passes.
GetPotentialDonors ==
    /\ pc = "scan"
    /\ \E onOverflow \in {"crash", "continue"} :
          LET end == ReadDonors(EnterLoop, Len(dbFile) + 1, onOverflow) IN
          /\ pc' = end.at
          /\ dbPos' = end.pos
          /\ donors' = end.donors
          /\ donorCount' = end.donorCount
          /\ scanned' = end.scanned
          /\ size' = IF end.at = "returned" THEN end.donorCount ELSE size
    /\ UNCHANGED <<choice, dbFile, patient, min_match>>
    /\ UNCHANGED mergeVars

\* ------------------------------------------------------------------------
\* Specifications
\* ------------------------------------------------------------------------

Next ==
    \/ Prime
    \/ MergeIteration
    \/ CloseDatabase
    \/ GetPotentialDonors

Spec == Init /\ [][Next]_vars

SpecLong == InitLong /\ [][Next]_vars

\* ------------------------------------------------------------------------
\* What the properties below speak of
\* ------------------------------------------------------------------------

\* the records written to the output file, in order
Written == SelectSeq(outFile, LAMBDA e : e.t = "record")

\* every input file is one or more whole records, sorted by name
WellFormed ==
    choice = 1 /\ \A u \in 1..Len(units) : units[u] \in SortedFiles \ {<<>>}

\* the records a file yields when read to its first failing fscanf
RECURSIVE ScanAll(_, _)
ScanAll(text, p) ==
    LET r == fscanf(text, p)
    IN IF r.count # 7 THEN <<>>
       ELSE <<Stored(ZeroPerson, r)>> \o ScanAll(text, r.pos)

Input(u) == ScanAll(units[u + 1], 1)

IdsOf(u) == {Input(u)[k].id : k \in 1..Len(Input(u))}

AllIds == UNION {IdsOf(u) : u \in 0..(numberOfUnits - 1)}

\* a name as the cleanup is said to leave it
IsClean(name) ==
    /\ \A k \in 1..Len(name) : ~isdigit(name[k])
    /\ name = <<>> \/ ~isspace(name[Len(name)])

\* the number of gene positions at which r and q agree
MatchCount(r, q) == Cardinality({k \in 1..5 : r.genes[k] = q.genes[k]})

\* the first parse of file u, made by the priming loop, failed
PrimeFailed(u) == u < i /\ fscanf(units[u + 1], 1).count # 7

\* ------------------------------------------------------------------------
\* The properties
\* ------------------------------------------------------------------------

\* C1: when every input file is sorted by name, the names of the records
\* written are non-decreasing under strcmp, as held in the slots.
C1_Sortedness ==
    WellFormed =>
        \A k \in 1..(Len(Written) - 1) :
            strcmp(Written[k].p.name, Written[k + 1].p.name) <= 0

\* C2: no two records written share an id, and every id written is in a
\* row of the processed-id array.
C2_Uniqueness ==
    choice = 1 =>
        /\ \A j, k \in 1..Len(Written) :
              j # k => Written[j].p.id # Written[k].p.id
        /\ \A j \in 1..Len(Written) :
              \E k \in 1..numProcessed :
                  k <= MAX_UNITS /\ processedIDs[k] = Written[j].p.id

\* C3: when an id is in file a, the earliest file that has it, and in a later
\* file b with other field values, no record of b with that id is written,
\* and once the output is closed a record of a with that id is in it.
C3_FirstSeenBySourceOrder ==
    WellFormed =>
        \A a, b \in 0..(numberOfUnits - 1) : \A x \in IdsOf(a) \cap IdsOf(b) :
            (/\ a < b
             /\ \A c \in 0..(a - 1) : x \notin IdsOf(c)
             /\ \E j \in 1..Len(Input(a)), k \in 1..Len(Input(b)) :
                   /\ Input(a)[j].id = x
                   /\ Input(b)[k].id = x
                   /\ Input(a)[j].genes # Input(b)[k].genes)
            => /\ \A e \in 1..Len(Written) :
                     ~(Written[e].src = b /\ Written[e].p.id = x)
               /\ pc = "closed" =>
                     \E e \in 1..Len(Written) :
                         Written[e].src = a /\ Written[e].p.id = x

\* C4: when every record of every file parses, the closed output holds each
\* id of the input exactly once, and as many records as the input has ids.
C4_MergeComplete ==
    (WellFormed /\ pc = "closed") =>
        /\ \A x \in AllIds :
              Cardinality({e \in 1..Len(Written) : Written[e].p.id = x}) = 1
        /\ Len(Written) = Cardinality(AllIds)

\* C5: getPotentialDonors returns the records of the database with at least
\* min_match matching genes, in file order, and *size is their number.
C5_FilterExact ==
    (choice = 2 /\ pc = "returned") =>
        LET qualifying == SelectSeq(scanned,
                              LAMBDA r : MatchCount(r, patient) >= min_match)
        IN /\ SkipSpace(dbFile, dbPos) > Len(dbFile)
           /\ size = Len(qualifying)
           /\ Len(donors) >= size
           /\ SubSeq(donors, 1, size) = qualifying

\* C6: a name held in a slot after a successful parse, or returned in the
\* donors array, has no trailing white space and no digit.
C6_NamesClean ==
    /\ \A u \in 0..(numberOfUnits - 1) :
          slot[u] = "record" => IsClean(currentPersons[u].name)
    /\ \A k \in 1..Len(donors) : IsClean(donors[k].name)

\* C7: the record a merge iteration takes is from a slot whose name is the
\* smallest of the non-empty slots, and from the lowest such slot.
C7_TieBreak ==
    [][(choice = 1 /\ pc = "loop" /\ pc' \in {"loop", "crashed"}) =>
          LET w == lastFileIndex' IN
          /\ w \in 0..(numberOfUnits - 1)
          /\ currentPersons[w].name # <<>>
          /\ \A j \in 0..(numberOfUnits - 1) :
                currentPersons[j].name # <<>> =>
                   /\ strcmp(currentPersons[w].name, currentPersons[j].name) <= 0
                   /\ currentPersons[j].name = currentPersons[w].name => w <= j
       ]_vars

\* C7's case: the first records of two files had the same name, and both
\* were written, the lower file's first.
C7_Witness ==
    \E j, k \in 1..Len(Written) :
        /\ j < k
        /\ Written[j].no = 1 /\ Written[k].no = 1
        /\ Written[j].src < Written[k].src
        /\ Written[j].p.name = Written[k].p.name

\* C8: a file whose first parse failed is never read again, no record of it
\* is written, activeFiles counts the slots that hold a record, and the
\* other files are read to their ends.
C8_FailedPrimeInactive ==
    choice = 1 =>
        \A u \in 0..(numberOfUnits - 1) :
            PrimeFailed(u) =>
                /\ fscanfCalls[u] = 1
                /\ \A e \in 1..Len(Written) : Written[e].src # u
                /\ pc \in {"prime", "loop"} =>
                      activeFiles = Cardinality({v \in 0..(numberOfUnits - 1) :
                                                    slot[v] = "record"})
                /\ pc = "closed" =>
                      \A v \in 0..(numberOfUnits - 1) :
                          ~PrimeFailed(v) => slot[v] = "cleared"

\* C9: the merge loop is left only when no slot holds a record, and while
\* it runs activeFiles is positive exactly when a slot holds one.
C9_ExitAtExhaustion ==
    choice = 1 =>
        /\ pc \in {"break", "closed"} =>
              \A u \in 0..(numberOfUnits - 1) : slot[u] # "record"
        /\ pc = "loop" =>
              (activeFiles > 0 <=>
                  \E u \in 0..(numberOfUnits - 1) : slot[u] = "record")

\* C10: every id is stored at a row below MAX_UNITS.
C10_WithinCapacity == numProcessed <= MAX_UNITS

====
